---------------------------- MODULE Spec2Model ----------------------------
(***************************************************************************)
(* State-machine model of the interview session orchestration in           *)
(* src/src/VapiInterviewApp.jsx (React function component).                *)
(*                                                                         *)
(* React state and refs are the variables.  Every handler is one action.   *)
(* A function created in a render closes over the state values of that     *)
(* render; callbacks handed to setTimeout, to a promise or to the agent     *)
(* handle keep the closure of the render in which the handler chain was     *)
(* started.  A "chain" is one such asynchronous handler chain               *)
(* (requestMediaPermissions -> startInterview -> listeners) together with   *)
(* the state values its closure captured.                                   *)
(*                                                                         *)
(* The effect of lines 22-36 has [stream] as its dependency: whenever the   *)
(* stream state changes React runs the previous effect's cleanup, which     *)
(* clears the interval in timerRef and stops the tracks of the previous     *)
(* stream.  That cleanup is part of every action that changes stream.       *)
(***************************************************************************)
EXTENDS Integers, Sequences, FiniteSets, TLC

\* ------------------------------------------------------------- bounds
MaxChains == 2      \* handler chains (closures) alive at the same time
MaxStreams == 2     \* MediaStreams getUserMedia hands out in one run
MaxTimers == 2      \* setInterval calls in one run
MaxDuration == 1    \* cap of interviewDuration
MaxTranscript == 2  \* cap of the transcript length
MaxText == 2      \* characters in a text handed to sanitizeForApi

\* -------------------------------------------------- program constants
MaxAttempts == 10   \* SDK polls of startInterview

PlaceholderKey == "YOUR_VAPI_PUBLIC_KEY"

\* -------------------------------------------------------------- values
NoStream == 0       \* stream === null
NoTimer == 0        \* timerRef.current === null

Steps == {"setup", "permissions", "interview", "completed"}

\* What the user types into the two fields of the setup screen (both fields
\* are empty at first and after resetInterview).
Roles == {"Backend Engineer"}
Resumes == {"5 years Go"}
ApiKeys == {"", PlaceholderKey, "pk_live"}
GumErrors == {"NotAllowedError", "NotFoundError", "NotReadableError", "AbortError"}

StRequesting == "Requesting camera and microphone permissions..."
StGranted == "Permissions granted! Starting interview..."
StDenied == "Permission denied - Click \"Request Again\" to retry"
StConnectingAI == "Connecting to AI interviewer..."
StInProgress == "Interview in progress..."
StStartError == "Error: Could not start interview"
StCompleted == "Interview completed"
StAgentError == "Error: agent"

VARIABLES
    step, jobRole, resumeText, isCallActive, callStatus, transcript,
    interviewDuration, isMicEnabled, isCameraEnabled, permissionsGranted,
    stream,          \* React state, lines 7-17
    vapiRef, timerRef,   \* refs, lines 18-19
    streams,         \* every MediaStream handed out: its two tracks
    intervals,       \* ids of the active setInterval timers
    nTimers,         \* setInterval calls so far (ids are never reused)
    chains,          \* the asynchronous handler chains
    vapiSDK,         \* window.vapiSDK: the shape of the export, or undefined
    apiKey,          \* import.meta.env.VITE_VAPI_API_KEY
    hasMediaDevices, \* navigator.mediaDevices.getUserMedia exists
    sdkLog,          \* what the latest step of startInterview invoked on the
                     \* SDK and its handle, and the error its catch logged
    assistantConfig, \* the const of lines 299-321, once it has been built
    sanitizeCall     \* a call of sanitizeForApi: its argument and its result

vars == <<step, jobRole, resumeText, isCallActive, callStatus, transcript,
          interviewDuration, isMicEnabled, isCameraEnabled, permissionsGranted,
          stream, vapiRef, timerRef, streams, intervals, nTimers, chains,
          vapiSDK, apiKey, hasMediaDevices, sdkLog, assistantConfig,
          sanitizeCall>>

ChainIds == 1..MaxChains

\* ------------------------------------------------------- media streams
\* A track as getUserMedia returns it: live and enabled.
NewTrack == [live |-> TRUE, enabled |-> TRUE]
NewStream == [audio |-> NewTrack, video |-> NewTrack]

\* track.stop() on every track of stream s (a no-op on null).
StopTracks(strs, s) ==
    IF s = NoStream THEN strs
    ELSE [strs EXCEPT ![s].audio.live = FALSE, ![s].video.live = FALSE]

HasLiveTrack(s) == streams[s].audio.live \/ streams[s].video.live
LiveStreams == {s \in 1..Len(streams) : HasLiveTrack(s)}

\* clearInterval(timerRef.current) guarded by `if (timerRef.current)`.
ClearTimerRef(ivs) == IF timerRef # NoTimer THEN ivs \ {timerRef} ELSE ivs

\* Cleanup of the [stream] effect, run when the stream state changes from
\* `old`: clears the timerRef interval and stops the old stream's tracks.
EffectCleanupStreams(strs, old, new) ==
    IF new = old THEN strs ELSE StopTracks(strs, old)
EffectCleanupIntervals(ivs, old, new) ==
    IF new = old THEN ivs ELSE ClearTimerRef(ivs)

\* ---------------------------------------------------------- transcript
Greeting(role) == [speaker |-> "Interviewer", text |-> <<"Hello!", role>>]
\* addToTranscript putting the new entry first.
addToTranscriptFront(t, speaker, text) == <<[speaker |-> speaker, text |-> text]>> \o t

\* Lines 466-468 (the timestamp of an entry is not modelled).
addToTranscript(t, speaker, text) == Append(t, [speaker |-> speaker, text |-> text])

\* -------------------------------------------------------------- chains
IdleChain == [pc |-> "idle", cStream |-> NoStream, cRole |-> "", attempts |-> 0,
              vapi |-> "none", runStarted |-> FALSE,
              callStarted |-> FALSE, callEnded |-> FALSE]

\* The closure of the current render, as a handler chain started now keeps it.
NewChain(pc) == [IdleChain EXCEPT !.pc = pc, !.cStream = stream, !.cRole = jobRole]

FreeIds == {c \in ChainIds : chains[c].pc = "idle"}
FirstFree == CHOOSE c \in FreeIds : \A d \in FreeIds : c <= d


\* ------------------------------------------------------- window.vapiSDK
\* The shape of the export the remote script installs.  run / create:
\* "absent" or what the call does; construct / call: what `new sdk(key)` and
\* `sdk(key)` do ("throws" also when the export is not a function);
\* handle: the object a successful invocation returns; sdkOn: whether the
\* export itself has an `on` method.
PlainObject ==
    [defined |-> TRUE, run |-> "absent", construct |-> "throws", call |-> "throws",
     create |-> "absent", dflt |-> "absent",
     dfltConstruct |-> "throws", dfltCall |-> "throws",
     handle |-> [start |-> FALSE, callable |-> "no", on |-> TRUE],
     sdkOn |-> FALSE]

\* typeof window.vapiSDK === 'undefined': the script has not run yet.
UndefinedSdk == [PlainObject EXCEPT !.defined = FALSE]

\* The observed export: { run } whose run returns the live call object.
ShapeRun == [PlainObject EXCEPT !.run = "returnsHandle"]
\* A class export whose instances have start(config).
ShapeClass == [PlainObject EXCEPT !.construct = "returnsHandle", !.handle.start = TRUE]
\* A factory export whose handles are callable; calling them throws.
ShapeFactory == [PlainObject EXCEPT !.call = "returnsHandle", !.handle.callable = "throws"]

\* A { run } export whose run throws.
ShapeRunThrows == [PlainObject EXCEPT !.run = "throws"]

SdkShapes == {ShapeRun, ShapeClass, ShapeFactory, ShapeRunThrows, PlainObject}

\* Every shape window.vapiSDK can have, for the claims about the instantiation
\* alone.  dfltConstruct / dfltCall matter only when `default` is there.
RunOutcomes == {"absent", "throws", "returnsHandle", "returnsNothing"}
ConstructOutcomes == {"throws", "returnsHandle"}
CallOutcomes == {"throws", "returnsHandle", "returnsNothing"}
Handles == [start : BOOLEAN, callable : {"no", "ok", "throws"}, on : BOOLEAN]
ExportShapes ==
    {s \in [defined : {TRUE}, run : RunOutcomes, construct : ConstructOutcomes,
            call : CallOutcomes, create : RunOutcomes,
            dflt : {"absent", "present"}, dfltConstruct : ConstructOutcomes,
            dfltCall : CallOutcomes, handle : Handles, sdkOn : BOOLEAN] :
        s.dflt = "absent" => s.dfltConstruct = "throws" /\ s.dfltCall = "throws"}

\* The errors startInterview throws or meets (logged at line 436).
ErrTimeout == "Vapi SDK failed to load"
ErrConfig == "Vapi API key not found"
ErrRun == "Failed to start Vapi via window.vapiSDK.run()"
ErrUnsupported == "Unsupported Vapi SDK export shape"
ErrThrown == "error thrown by the SDK"
ErrStart == "vapi.start rejected"
ErrNoOn == "TypeError: vapi.on is not a function"

BootOk(v, run, tried) ==
    [ok |-> TRUE, vapi |-> v, runStarted |-> run, tried |-> tried, err |-> "none"]
BootFail(tried, err) ==
    [ok |-> FALSE, vapi |-> "none", runStarted |-> FALSE, tried |-> tried, err |-> err]
Returned(how) == IF how = "returnsHandle" THEN "handle" ELSE "undefined"

\* Bootstrap with the factory call tried before the constructor.
BootstrapCallFirst(sdk) ==
    IF sdk.run # "absent"
    THEN IF sdk.run = "throws" THEN BootFail(<<"run">>, ErrRun)
         ELSE BootOk(IF sdk.run = "returnsHandle" THEN "handle" ELSE "sdk",
                     TRUE, <<"run">>)
    ELSE IF sdk.call # "throws"
    THEN BootOk(Returned(sdk.call), FALSE, <<"call">>)
    ELSE IF sdk.construct # "throws"
    THEN BootOk("handle", FALSE, <<"call", "construct">>)
    ELSE IF sdk.create # "absent"
    THEN IF sdk.create = "throws"
         THEN BootFail(<<"call", "construct", "create">>, ErrThrown)
         ELSE BootOk(Returned(sdk.create), FALSE, <<"call", "construct", "create">>)
    ELSE IF sdk.dflt # "absent"
    THEN IF sdk.dfltConstruct # "throws"
         THEN BootOk("handle", FALSE, <<"call", "construct", "dfltConstruct">>)
         ELSE IF sdk.dfltCall # "throws"
         THEN BootOk(Returned(sdk.dfltCall), FALSE,
                     <<"call", "construct", "dfltConstruct", "dfltCall">>)
         ELSE BootFail(<<"call", "construct", "dfltConstruct", "dfltCall">>, ErrThrown)
    ELSE BootFail(<<"call", "construct">>, ErrUnsupported)

\* Lines 333-370: the defensive instantiation.  vapi is "handle" (an object the
\* SDK returned), "sdk" (the export itself) or "undefined"; tried lists the
\* invocations made, in order; a throw of run is rethrown as ErrRun, a throw
\* of create or of the last default call leaves startInterview as it is.
Bootstrap(sdk) ==
    IF sdk.run # "absent"
    THEN IF sdk.run = "throws" THEN BootFail(<<"run">>, ErrRun)
         ELSE BootOk(IF sdk.run = "returnsHandle" THEN "handle" ELSE "sdk",
                     TRUE, <<"run">>)
    ELSE IF sdk.construct # "throws"
    THEN BootOk("handle", FALSE, <<"construct">>)
    ELSE IF sdk.call # "throws"
    THEN BootOk(Returned(sdk.call), FALSE, <<"construct", "call">>)
    ELSE IF sdk.create # "absent"
    THEN IF sdk.create = "throws"
         THEN BootFail(<<"construct", "call", "create">>, ErrThrown)
         ELSE BootOk(Returned(sdk.create), FALSE, <<"construct", "call", "create">>)
    ELSE IF sdk.dflt # "absent"
    THEN IF sdk.dfltConstruct # "throws"
         THEN BootOk("handle", FALSE, <<"construct", "call", "dfltConstruct">>)
         ELSE IF sdk.dfltCall # "throws"
         THEN BootOk(Returned(sdk.dfltCall), FALSE,
                     <<"construct", "call", "dfltConstruct", "dfltCall">>)
         ELSE BootFail(<<"construct", "call", "dfltConstruct", "dfltCall">>, ErrThrown)
    ELSE BootFail(<<"construct", "call">>, ErrUnsupported)

\* Lines 376-384 with the `if (!runStarted)` of line 377 left out.
StartCallsAfterRun(b, h) ==
    IF b.vapi = "handle" /\ h.start THEN <<"start">>
    ELSE IF b.vapi = "handle" /\ h.callable # "no" THEN <<"handleCall">>
    ELSE <<>>

\* Lines 376-384: what startInterview invokes on the handle b.vapi after the
\* instantiation b: start(config), else the handle itself, and nothing when
\* run() already started the call.
StartCalls(b, h) ==
    IF b.runStarted THEN <<>>
    ELSE IF b.vapi = "handle" /\ h.start THEN <<"start">>
    ELSE IF b.vapi = "handle" /\ h.callable # "no" THEN <<"handleCall">>
    ELSE <<>>

\* DirectCallEscapes without the try of line 382.
DirectCallUncaught(sc, h) == sc = <<"handleCall">> /\ h.callable = "throws"

\* Line 382: the direct call vapi(config) sits in a try whose catch only
\* warns, so no throw of it leaves the statement.
DirectCallEscapes(sc, h) == FALSE

\* One step of startInterview: the invocations it made and the error logged.
Log(calls, error) == [calls |-> calls, error |-> error]
NoLog == Log(<<>>, "none")

\* BadKey without the test for the placeholder.
BadKeyEmptyOnly(k) == k = ""

\* Line 295: the key is missing or the placeholder.
BadKey(k) == k = "" \/ k = PlaceholderKey

\* typeof vapi.on === 'function' (vapi.on(...) throws a TypeError otherwise).
HasOn(sdk, v) == (v = "handle" /\ sdk.handle.on) \/ (v = "sdk" /\ sdk.sdkOn)

\* -------------------------------------------------------------- Init
Init ==
    /\ step = "setup"
    /\ jobRole = ""
    /\ resumeText = ""
    /\ isCallActive = FALSE
    /\ callStatus = ""
    /\ transcript = <<>>
    /\ interviewDuration = 0
    /\ isMicEnabled = FALSE
    /\ isCameraEnabled = FALSE
    /\ permissionsGranted = FALSE
    /\ stream = NoStream
    /\ vapiRef = "none"
    /\ timerRef = NoTimer
    /\ streams = <<>>
    /\ intervals = {}
    /\ nTimers = 0
    /\ chains = [c \in ChainIds |-> IdleChain]
    /\ vapiSDK = UndefinedSdk
    /\ apiKey \in ApiKeys
    /\ hasMediaDevices \in BOOLEAN
    /\ sdkLog = NoLog
    /\ assistantConfig = <<>>
    /\ sanitizeCall = <<>>

env == <<apiKey, hasMediaDevices>>

\* What sanitizeForApi and the agent configuration produced; the session
\* handlers never read it.
api == <<assistantConfig, sanitizeCall>>

\* ------------------------------------------------------ sanitizeForApi
\* JavaScript values as sanitizeForApi can be handed them: a string is its
\* sequence of characters, anything else carries its own type tag.
Backslash == "\\"
Chars == {Backslash, "n", "a"}
Texts == UNION {[1..n -> Chars] : n \in 0..MaxText}
Str(t) == [type |-> "string", chars |-> t]
NonStrings == {[type |-> "undefined"], [type |-> "object"],
               [type |-> "number", num |-> 0], [type |-> "number", num |-> 7]}
JsValues == {Str(t) : t \in Texts} \cup NonStrings

\* str.replace(/\\/g, '\\\\'): every backslash, left to right, becomes two.
RECURSIVE ReplaceBackslashes(_)
ReplaceBackslashes(s) ==
    IF s = <<>> THEN <<>>
    ELSE (IF Head(s) = Backslash THEN <<Backslash, Backslash>> ELSE <<Head(s)>>)
         \o ReplaceBackslashes(Tail(s))

\* sanitizeForApi whose pattern lacks the g flag: only the first backslash
\* is replaced.
sanitizeForApiFirstOnly(str) ==
    IF str.type # "string" THEN str
    ELSE LET s == str.chars
             hits == {i \in 1..Len(s) : s[i] = Backslash}
         IN IF hits = {} THEN str
            ELSE LET i == CHOOSE h \in hits : \A j \in hits : h <= j
                 IN Str(SubSeq(s, 1, i) \o <<Backslash>> \o SubSeq(s, i + 1, Len(s)))

\* Lines 117-122.
sanitizeForApi(str) ==
    IF str.type # "string" THEN str
    ELSE Str(ReplaceBackslashes(str.chars))

\* Lines 253-278: the template literal.  Each fixed piece of the template is
\* one symbol here; none of them contains a backslash.
generateInterviewPrompt(role, resume) ==
    <<"You are an expert technical interviewer ... for the position of ">>
    \o role \o <<". CANDIDATE'S RESUME: ">> \o resume
    \o <<" YOUR ROLE: ... questions appropriate for ">> \o role
    \o <<" ... Ask 3-4 technical questions relevant to ">> \o role
    \o <<" ... Maintain a friendly but professional tone throughout.">>

\* Line 315: the template literal of the greeting.
FirstMessageText(role) ==
    <<"Hello! Thank you ... for the ">> \o role \o <<" position. ... Shall we get started?">>

\* Lines 299-321: the two texts of the agent configuration.
AssistantConfig(role, resume) ==
    [content |-> sanitizeForApi(Str(generateInterviewPrompt(role, resume))),
     firstMessage |-> sanitizeForApi(Str(FirstMessageText(role)))]


\* ------------------------------------------------------ setup screen
\* Line 514: onChange of the job role input.
SetJobRole(r) ==
    /\ step = "setup"
    /\ r # jobRole
    /\ jobRole' = r
    /\ UNCHANGED <<step, resumeText, isCallActive, callStatus, transcript,
                   interviewDuration, isMicEnabled, isCameraEnabled,
                   permissionsGranted, stream, vapiRef, timerRef, streams,
                   intervals, nTimers, chains, vapiSDK, env, sdkLog, api>>

\* Lines 543 and 203-252: the resume textarea or an uploaded file.
SetResumeText(t) ==
    /\ step = "setup"
    /\ t # resumeText
    /\ resumeText' = t
    /\ UNCHANGED <<step, jobRole, isCallActive, callStatus, transcript,
                   interviewDuration, isMicEnabled, isCameraEnabled,
                   permissionsGranted, stream, vapiRef, timerRef, streams,
                   intervals, nTimers, chains, vapiSDK, env, sdkLog, api>>

\* handleStartInterview without the test for the capture API.
handleStartInterviewNoApiCheck ==
    /\ step = "setup"
    /\ jobRole # "" /\ resumeText # ""
    /\ FreeIds # {}
    /\ step' = "permissions"
    /\ callStatus' = ""
    /\ chains' = [chains EXCEPT ![FirstFree] = NewChain("timeout500")]
    /\ UNCHANGED <<jobRole, resumeText, isCallActive, transcript,
                   interviewDuration, isMicEnabled, isCameraEnabled,
                   permissionsGranted, stream, vapiRef, timerRef, streams,
                   intervals, nTimers, vapiSDK, env, sdkLog, api>>

\* Lines 96-115, from the Start Interview button (lines 551-553, disabled
\* while a field is empty).  Without the capture API it only alerts and
\* returns.  (window.alert changes no state and is not modelled; every other
\* alert of the component comes with a setCallStatus.)
handleStartInterview ==
    /\ step = "setup"
    /\ jobRole # "" /\ resumeText # ""
    /\ IF ~hasMediaDevices
       THEN UNCHANGED <<step, callStatus, chains>>
       ELSE /\ FreeIds # {}
            /\ step' = "permissions"
            /\ callStatus' = ""
            /\ chains' = [chains EXCEPT ![FirstFree] = NewChain("timeout500")]
    /\ UNCHANGED <<jobRole, resumeText, isCallActive, transcript,
                   interviewDuration, isMicEnabled, isCameraEnabled,
                   permissionsGranted, stream, vapiRef, timerRef, streams,
                   intervals, nTimers, vapiSDK, env, sdkLog, api>>

\* ------------------------------------------- requestMediaPermissions
\* Lines 112-114 and 124-138: the 500 ms timeout fires and
\* requestMediaPermissions runs up to its await of getUserMedia.
RequestTimerFires(c) ==
    /\ chains[c].pc = "timeout500"
    /\ callStatus' = StRequesting
    /\ chains' = [chains EXCEPT ![c].pc = "getUserMedia"]
    /\ UNCHANGED <<step, jobRole, resumeText, isCallActive, transcript,
                   interviewDuration, isMicEnabled, isCameraEnabled,
                   permissionsGranted, stream, vapiRef, timerRef, streams,
                   intervals, nTimers, vapiSDK, env, sdkLog, api>>

\* Lines 620-628: Request Again, shown on the permissions screen while
\* permissionsGranted is false; runs requestMediaPermissions of the current
\* render up to its await.
RequestAgain ==
    /\ step = "permissions"
    /\ ~permissionsGranted
    /\ FreeIds # {}
    /\ callStatus' = StRequesting
    /\ chains' = [chains EXCEPT ![FirstFree] = NewChain("getUserMedia")]
    /\ UNCHANGED <<step, jobRole, resumeText, isCallActive, transcript,
                   interviewDuration, isMicEnabled, isCameraEnabled,
                   permissionsGranted, stream, vapiRef, timerRef, streams,
                   intervals, nTimers, vapiSDK, env, sdkLog, api>>

\* Lines 129-156: getUserMedia resolves with a new stream.
GumResolve(c) ==
    /\ chains[c].pc = "getUserMedia"
    /\ Len(streams) < MaxStreams
    /\ LET new == Len(streams) + 1 IN
        /\ stream' = new
        /\ streams' = EffectCleanupStreams(Append(streams, NewStream), stream, new)
        /\ intervals' = EffectCleanupIntervals(intervals, stream, new)
    /\ isMicEnabled' = TRUE
    /\ isCameraEnabled' = TRUE
    /\ permissionsGranted' = TRUE
    /\ callStatus' = StGranted
    /\ chains' = [chains EXCEPT ![c].pc = "settle"]
    /\ UNCHANGED <<step, jobRole, resumeText, isCallActive, transcript,
                   interviewDuration, vapiRef, timerRef, nTimers, vapiSDK,
                   env, sdkLog, api>>

\* GumReject as a catch that goes back to the setup screen.
GumRejectToSetup(c, err) ==
    /\ chains[c].pc = "getUserMedia"
    /\ callStatus' = StDenied
    /\ step' = "setup"
    /\ chains' = [chains EXCEPT ![c] = IdleChain]
    /\ UNCHANGED <<jobRole, resumeText, isCallActive, transcript,
                   interviewDuration, isMicEnabled, isCameraEnabled,
                   permissionsGranted, stream, vapiRef, timerRef, streams,
                   intervals, nTimers, vapiSDK, env, sdkLog, api>>

\* Lines 158-180: getUserMedia rejects; every error class ends the same way.
GumReject(c, err) ==
    /\ chains[c].pc = "getUserMedia"
    /\ callStatus' = StDenied
    /\ chains' = [chains EXCEPT ![c] = IdleChain]
    /\ UNCHANGED <<step, jobRole, resumeText, isCallActive, transcript,
                   interviewDuration, isMicEnabled, isCameraEnabled,
                   permissionsGranted, stream, vapiRef, timerRef, streams,
                   intervals, nTimers, vapiSDK, env, sdkLog, api>>


\* ------------------------------------------------- toggleCamera / toggleMic
\* Lines 183-191.  getUserMedia is asked for video and audio (lines 129-138),
\* so a stream it hands out has one track of each kind.
toggleCamera ==
    IF stream # NoStream
    THEN /\ streams' = [streams EXCEPT ![stream].video.enabled = ~@]
         /\ isCameraEnabled' = ~streams[stream].video.enabled
         /\ UNCHANGED <<step, jobRole, resumeText, isCallActive, callStatus,
                        transcript, interviewDuration, isMicEnabled,
                        permissionsGranted, stream, vapiRef, timerRef, intervals,
                        nTimers, chains, vapiSDK, env, sdkLog, api>>
    ELSE UNCHANGED vars

\* toggleMic flipping the video track.
toggleMicWrongTrack ==
    IF stream # NoStream
    THEN /\ streams' = [streams EXCEPT ![stream].video.enabled = ~@]
         /\ isMicEnabled' = ~streams[stream].video.enabled
         /\ UNCHANGED <<step, jobRole, resumeText, isCallActive, callStatus,
                        transcript, interviewDuration, isCameraEnabled,
                        permissionsGranted, stream, vapiRef, timerRef, intervals,
                        nTimers, chains, vapiSDK, env, sdkLog, api>>
    ELSE UNCHANGED vars

\* Lines 193-201.
toggleMic ==
    IF stream # NoStream
    THEN /\ streams' = [streams EXCEPT ![stream].audio.enabled = ~@]
         /\ isMicEnabled' = ~streams[stream].audio.enabled
         /\ UNCHANGED <<step, jobRole, resumeText, isCallActive, callStatus,
                        transcript, interviewDuration, isCameraEnabled,
                        permissionsGranted, stream, vapiRef, timerRef, intervals,
                        nTimers, chains, vapiSDK, env, sdkLog, api>>
    ELSE UNCHANGED vars


\* ------------------------------------------------------ startInterview
\* StartFails as a catch that sends the user back to the setup screen.
StartFailsRegress(c, ref) ==
    /\ callStatus' = StStartError
    /\ step' = "setup"
    /\ vapiRef' = ref
    /\ chains' = [chains EXCEPT ![c] = IdleChain]
    /\ UNCHANGED <<jobRole, resumeText, isCallActive, transcript,
                   interviewDuration, isMicEnabled, isCameraEnabled,
                   permissionsGranted, stream, timerRef, streams, intervals,
                   nTimers, vapiSDK, env, api>>

\* Lines 435-439: the catch of startInterview.  ref is vapiRef.current as the
\* try block left it.  (sdkLog is set by the step that ends here.)
StartFails(c, ref) ==
    /\ callStatus' = StStartError
    /\ vapiRef' = ref
    /\ chains' = [chains EXCEPT ![c] = IdleChain]
    /\ UNCHANGED <<step, jobRole, resumeText, isCallActive, transcript,
                   interviewDuration, isMicEnabled, isCameraEnabled,
                   permissionsGranted, stream, timerRef, streams, intervals,
                   nTimers, vapiSDK, env, api>>

\* Lines 386-433: the listeners are registered on vapi, the fallback timer is
\* started, the call is flagged active and the greeting is appended.  ch is
\* the chain as the earlier part of startInterview left it.  vapi.on throws
\* when vapi has no `on`, which ends in the catch.
Subscribe(c, ch, ref) ==
    IF HasOn(vapiSDK, ch.vapi)
    THEN /\ nTimers < MaxTimers
         /\ Len(transcript) < MaxTranscript
         /\ nTimers' = nTimers + 1
         /\ timerRef' = nTimers + 1
         /\ intervals' = intervals \cup {nTimers + 1}
         /\ isCallActive' = TRUE
         /\ callStatus' = StInProgress
         /\ transcript' = addToTranscript(transcript, "Interviewer", Greeting(ch.cRole).text)
         /\ vapiRef' = ref
         /\ chains' = [chains EXCEPT ![c] = [ch EXCEPT !.pc = "subscribed", !.attempts = 0]]
         /\ UNCHANGED <<step, jobRole, resumeText, interviewDuration,
                        isMicEnabled, isCameraEnabled, permissionsGranted,
                        stream, streams, vapiSDK, env, api>>
    ELSE StartFails(c, ref)

\* The TypeError of line 387 when vapi has no `on`.
SubscribeError(v) == IF HasOn(vapiSDK, v) THEN "none" ELSE ErrNoOn

\* Lines 289-384: startInterview once the SDK wait is over and the SDK is
\* there: key check, instantiation, then start(config) when the handle has
\* one (awaited, outside any inner try), or a direct call when the handle is
\* callable (inside a try whose catch only logs).
AfterSdkWait(c) ==
    LET b == Bootstrap(vapiSDK)
        h == vapiSDK.handle
        calls == b.tried \o StartCalls(b, h)
    IN  IF BadKey(apiKey)
        THEN StartFails(c, vapiRef) /\ sdkLog' = Log(<<>>, ErrConfig)
        ELSE IF ~b.ok
        THEN StartFails(c, vapiRef) /\ sdkLog' = Log(b.tried, b.err)
        ELSE IF DirectCallEscapes(StartCalls(b, h), h)
        THEN StartFails(c, b.vapi) /\ sdkLog' = Log(calls, ErrThrown)
        ELSE IF StartCalls(b, h) = <<"start">>
        THEN /\ vapiRef' = b.vapi
             /\ callStatus' = StConnectingAI
             /\ chains' = [chains EXCEPT ![c].pc = "starting", ![c].attempts = 0,
                                         ![c].vapi = b.vapi]
             /\ sdkLog' = Log(calls, "none")
             /\ UNCHANGED <<step, jobRole, resumeText, isCallActive, transcript,
                            interviewDuration, isMicEnabled, isCameraEnabled,
                            permissionsGranted, stream, timerRef, streams,
                            intervals, nTimers, vapiSDK, env, api>>
        ELSE /\ Subscribe(c,
                    [chains[c] EXCEPT
                        !.vapi = b.vapi,
                        !.runStarted = b.runStarted,
                        !.callStarted = b.runStarted
                            \/ (StartCalls(b, h) = <<"handleCall">> /\ h.callable = "ok")],
                    b.vapi)
             /\ sdkLog' = Log(calls, SubscribeError(b.vapi))

\* Lines 154-156 and 280-287: the 1500 ms timeout fires and startInterview
\* runs; it waits 500 ms when the SDK is not there yet.
SettleFires(c) ==
    /\ chains[c].pc = "settle"
    /\ IF ~vapiSDK.defined
       THEN /\ chains' = [chains EXCEPT ![c].pc = "poll", ![c].attempts = 0]
            /\ sdkLog' = NoLog
            /\ UNCHANGED <<step, jobRole, resumeText, isCallActive, callStatus,
                           transcript, interviewDuration, isMicEnabled,
                           isCameraEnabled, permissionsGranted, stream, vapiRef,
                           timerRef, streams, intervals, nTimers, vapiSDK, env, api>>
       ELSE AfterSdkWait(c)

\* PollFires with one wait too many.
PollFiresOnceMore(c) ==
    /\ chains[c].pc = "poll"
    /\ IF ~vapiSDK.defined
       THEN IF chains[c].attempts < MaxAttempts
            THEN /\ chains' = [chains EXCEPT ![c].attempts = @ + 1]
                 /\ sdkLog' = NoLog
                 /\ UNCHANGED <<step, jobRole, resumeText, isCallActive,
                                callStatus, transcript, interviewDuration,
                                isMicEnabled, isCameraEnabled,
                                permissionsGranted, stream, vapiRef, timerRef,
                                streams, intervals, nTimers, vapiSDK, env, api>>
            ELSE StartFails(c, vapiRef) /\ sdkLog' = Log(<<>>, ErrTimeout)
       ELSE AfterSdkWait(c)

\* Lines 284-291: one 500 ms wait of the SDK poll ends.
PollFires(c) ==
    /\ chains[c].pc = "poll"
    /\ IF ~vapiSDK.defined
       THEN IF chains[c].attempts + 1 < MaxAttempts
            THEN /\ chains' = [chains EXCEPT ![c].attempts = @ + 1]
                 /\ sdkLog' = NoLog
                 /\ UNCHANGED <<step, jobRole, resumeText, isCallActive,
                                callStatus, transcript, interviewDuration,
                                isMicEnabled, isCameraEnabled,
                                permissionsGranted, stream, vapiRef, timerRef,
                                streams, intervals, nTimers, vapiSDK, env, api>>
            ELSE StartFails(c, vapiRef) /\ sdkLog' = Log(<<>>, ErrTimeout)
       ELSE AfterSdkWait(c)

\* Line 379: the awaited vapi.start(config) resolves.
StartResolves(c) ==
    /\ chains[c].pc = "starting"
    /\ Subscribe(c, [chains[c] EXCEPT !.callStarted = TRUE], vapiRef)
    /\ sdkLog' = Log(<<>>, SubscribeError(chains[c].vapi))

\* Line 379: the awaited vapi.start(config) rejects (or start throws); the
\* await is in no inner try, so the outer catch runs.
StartRejects(c) ==
    /\ chains[c].pc = "starting"
    /\ StartFails(c, vapiRef)
    /\ sdkLog' = Log(<<>>, ErrStart)

\* Lines 24-27: the remote script runs and installs window.vapiSDK.  The loop
\* condition of line 284 tests the SDK before `attempts`, so a polling chain
\* never reads its counter again once the SDK is defined: the dead counter is
\* dropped here instead of being carried to the chain's next wake-up.
SdkLoads(shape) ==
    /\ ~vapiSDK.defined
    /\ vapiSDK' = shape
    /\ chains' = [c \in ChainIds |-> [chains[c] EXCEPT !.attempts = 0]]
    /\ UNCHANGED <<step, jobRole, resumeText, isCallActive, callStatus,
                   transcript, interviewDuration, isMicEnabled, isCameraEnabled,
                   permissionsGranted, stream, vapiRef, timerRef, streams,
                   intervals, nTimers, env, sdkLog, api>>


\* -------------------------------------------------------- endInterview
\* endInterview that flips the microphone flag instead of clearing it.
endInterviewFlipsMic(cs) ==
    /\ intervals' = IF cs # NoStream
                    THEN EffectCleanupIntervals(ClearTimerRef(intervals), stream, NoStream)
                    ELSE ClearTimerRef(intervals)
    /\ streams' = IF cs # NoStream
                  THEN EffectCleanupStreams(StopTracks(streams, cs), stream, NoStream)
                  ELSE streams
    /\ stream' = IF cs # NoStream THEN NoStream ELSE stream
    /\ isCallActive' = FALSE
    /\ isMicEnabled' = ~isMicEnabled
    /\ isCameraEnabled' = FALSE
    /\ permissionsGranted' = FALSE
    /\ step' = "completed"
    /\ callStatus' = StCompleted
    /\ UNCHANGED <<jobRole, resumeText, transcript, interviewDuration, vapiRef,
                   timerRef, nTimers, vapiSDK, env, sdkLog, api>>

\* Lines 442-464.  cs is `stream` as the closure that runs endInterview
\* captured it: the End Interview button runs the current render's
\* endInterview, the call-end listener the one of the render in which its
\* handler chain began.  setStream(null) changes the stream state, so the
\* [stream] effect's cleanup follows it.
endInterview(cs) ==
    /\ intervals' = IF cs # NoStream
                    THEN EffectCleanupIntervals(ClearTimerRef(intervals), stream, NoStream)
                    ELSE ClearTimerRef(intervals)
    /\ streams' = IF cs # NoStream
                  THEN EffectCleanupStreams(StopTracks(streams, cs), stream, NoStream)
                  ELSE streams
    /\ stream' = IF cs # NoStream THEN NoStream ELSE stream
    /\ isCallActive' = FALSE
    /\ isMicEnabled' = FALSE
    /\ isCameraEnabled' = FALSE
    /\ permissionsGranted' = FALSE
    /\ step' = "completed"
    /\ callStatus' = StCompleted
    /\ UNCHANGED <<jobRole, resumeText, transcript, interviewDuration, vapiRef,
                   timerRef, nTimers, vapiSDK, env, sdkLog, api>>

\* Lines 779-785: the End Interview button of the interview screen
\* (rendered only while step === 'interview', line 668).
EndInterviewClick ==
    /\ step = "interview"
    /\ endInterview(stream)
    /\ UNCHANGED chains

\* ------------------------------------------------- agent handle events
\* The handle of chain c delivers events once its call was started.
Listening(c) == chains[c].pc = "subscribed" /\ chains[c].callStarted

\* Lines 387-395: the call-start listener.
CallStart(c) ==
    /\ Listening(c)
    /\ nTimers < MaxTimers
    /\ isCallActive' = TRUE
    /\ callStatus' = StInProgress
    /\ nTimers' = nTimers + 1
    /\ timerRef' = nTimers + 1
    /\ intervals' = intervals \cup {nTimers + 1}
    /\ UNCHANGED <<step, jobRole, resumeText, transcript, interviewDuration,
                   isMicEnabled, isCameraEnabled, permissionsGranted, stream,
                   vapiRef, streams, chains, vapiSDK, env, sdkLog, api>>

\* Lines 397-399: the call-end listener.
CallEnd(c) ==
    /\ Listening(c)
    /\ endInterview(chains[c].cStream)
    /\ chains' = [chains EXCEPT ![c].callEnded = TRUE]

\* Lines 452-456 when track.stop() of the track of kind k throws: the
\* interval is cleared already (lines 448-450), forEach ends at the throw
\* (audio comes first in getTracks()), and no later statement of
\* endInterview runs, for the function has no try.
endInterviewThrows(cs, k) ==
    /\ cs # NoStream
    /\ intervals' = ClearTimerRef(intervals)
    /\ streams' = IF k = "video"
                  THEN [streams EXCEPT ![cs].audio.live = FALSE]
                  ELSE streams
    /\ UNCHANGED <<step, jobRole, resumeText, isCallActive, callStatus,
                   transcript, interviewDuration, isMicEnabled, isCameraEnabled,
                   permissionsGranted, stream, vapiRef, timerRef, nTimers,
                   vapiSDK, env, sdkLog, api>>

\* Lines 397-399: the call-end listener, with a track whose stop() throws.
CallEndThrows(c, k) ==
    /\ Listening(c)
    /\ endInterviewThrows(chains[c].cStream, k)
    /\ chains' = [chains EXCEPT ![c].callEnded = TRUE]

MessageTypes == {"transcript", "speech-update"}
MessageRoles == {"assistant", "user", "system"}
\* A text is the sequence of its words.
Messages == [type : MessageTypes, role : MessageRoles, transcript : {<<"Hello!">>}]

\* OnMessage as if every transcript message were appended.
OnMessageAnyRole(c, m) ==
    /\ Listening(c)
    /\ IF m.type = "transcript"
       THEN /\ Len(transcript) < MaxTranscript
            /\ transcript' = addToTranscript(transcript,
                   IF m.role = "assistant" THEN "Interviewer" ELSE "You",
                   m.transcript)
       ELSE UNCHANGED transcript
    /\ UNCHANGED <<step, jobRole, resumeText, isCallActive, callStatus,
                   interviewDuration, isMicEnabled, isCameraEnabled,
                   permissionsGranted, stream, vapiRef, timerRef, streams,
                   intervals, nTimers, chains, vapiSDK, env, sdkLog, api>>

\* Lines 401-412: the message listener.
OnMessage(c, m) ==
    /\ Listening(c)
    /\ IF m.type = "transcript" /\ m.role \in {"assistant", "user"}
       THEN /\ Len(transcript) < MaxTranscript
            /\ transcript' = addToTranscript(transcript,
                   IF m.role = "assistant" THEN "Interviewer" ELSE "You",
                   m.transcript)
       ELSE UNCHANGED transcript
    /\ UNCHANGED <<step, jobRole, resumeText, isCallActive, callStatus,
                   interviewDuration, isMicEnabled, isCameraEnabled,
                   permissionsGranted, stream, vapiRef, timerRef, streams,
                   intervals, nTimers, chains, vapiSDK, env, sdkLog, api>>

\* OnError as if an agent error also ended the call.
OnErrorStopsCall(c) ==
    /\ chains[c].pc = "subscribed"
    /\ callStatus' = StAgentError
    /\ isCallActive' = FALSE
    /\ UNCHANGED <<step, jobRole, resumeText, transcript,
                   interviewDuration, isMicEnabled, isCameraEnabled,
                   permissionsGranted, stream, vapiRef, timerRef, streams,
                   intervals, nTimers, chains, vapiSDK, env, sdkLog, api>>

\* Lines 414-418: the error listener.
OnError(c) ==
    /\ chains[c].pc = "subscribed"
    /\ callStatus' = StAgentError
    /\ UNCHANGED <<step, jobRole, resumeText, isCallActive, transcript,
                   interviewDuration, isMicEnabled, isCameraEnabled,
                   permissionsGranted, stream, vapiRef, timerRef, streams,
                   intervals, nTimers, chains, vapiSDK, env, sdkLog, api>>

\* Lines 392-394 and 425-427: one active interval fires.
Tick(t) ==
    /\ t \in intervals
    /\ interviewDuration < MaxDuration
    /\ interviewDuration' = interviewDuration + 1
    /\ UNCHANGED <<step, jobRole, resumeText, isCallActive, callStatus,
                   transcript, isMicEnabled, isCameraEnabled, permissionsGranted,
                   stream, vapiRef, timerRef, streams, intervals, nTimers,
                   chains, vapiSDK, env, sdkLog, api>>

\* ------------------------------------------------- Cancel and reset
\* Lines 629-642: Cancel on the permissions screen.
Cancel ==
    /\ step = "permissions"
    /\ stream' = NoStream
    /\ streams' = EffectCleanupStreams(StopTracks(streams, stream), stream, NoStream)
    /\ intervals' = EffectCleanupIntervals(intervals, stream, NoStream)
    /\ step' = "setup"
    /\ permissionsGranted' = FALSE
    /\ callStatus' = ""
    /\ UNCHANGED <<jobRole, resumeText, isCallActive, transcript,
                   interviewDuration, isMicEnabled, isCameraEnabled, vapiRef,
                   timerRef, nTimers, chains, vapiSDK, env, sdkLog, api>>

\* resetInterview that keeps the transcript.
resetInterviewKeepsTranscript ==
    /\ step = "completed"
    /\ step' = "setup"
    /\ jobRole' = ""
    /\ resumeText' = ""
    /\ isCallActive' = FALSE
    /\ callStatus' = ""
    /\ interviewDuration' = 0
    /\ UNCHANGED <<transcript, isMicEnabled, isCameraEnabled, permissionsGranted,
                   stream, vapiRef, timerRef, streams, intervals, nTimers,
                   chains, vapiSDK, env, sdkLog, api>>

\* Lines 476-484 from Start New Interview (lines 836-838, completed screen).
resetInterview ==
    /\ step = "completed"
    /\ step' = "setup"
    /\ jobRole' = ""
    /\ resumeText' = ""
    /\ isCallActive' = FALSE
    /\ callStatus' = ""
    /\ transcript' = <<>>
    /\ interviewDuration' = 0
    /\ UNCHANGED <<isMicEnabled, isCameraEnabled, permissionsGranted, stream,
                   vapiRef, timerRef, streams, intervals, nTimers, chains,
                   vapiSDK, env, sdkLog, api>>

\* ------------------------------------------------------ specification
Next ==
    \/ \E r \in Roles : SetJobRole(r)
    \/ \E t \in Resumes : SetResumeText(t)
    \/ handleStartInterview
    \/ RequestAgain
    \/ Cancel
    \/ resetInterview
    \/ \E shape \in SdkShapes : SdkLoads(shape)
    \/ \E c \in ChainIds :
        \/ RequestTimerFires(c)
        \/ GumResolve(c)
        \/ \E err \in GumErrors : GumReject(c, err)
        \/ SettleFires(c)
        \/ PollFires(c)
        \/ StartResolves(c)
        \/ StartRejects(c)
        \/ CallStart(c)
        \/ CallEnd(c)
        \/ \E m \in Messages : OnMessage(c, m)
        \/ OnError(c)
    \/ \E t \in 1..MaxTimers : Tick(t)

Spec == Init /\ [][Next]_vars

\* The session up to its activation: every user action and every step of
\* requestMediaPermissions and startInterview, with an agent that delivers no
\* event (and so no interval tick is observed and 'completed' is not reached).
NextStart ==
    \/ \E r \in Roles : SetJobRole(r)
    \/ \E t \in Resumes : SetResumeText(t)
    \/ handleStartInterview
    \/ RequestAgain
    \/ Cancel
    \/ \E shape \in SdkShapes : SdkLoads(shape)
    \/ \E c \in ChainIds :
        \/ RequestTimerFires(c)
        \/ GumResolve(c)
        \/ \E err \in GumErrors : GumReject(c, err)
        \/ SettleFires(c)
        \/ PollFires(c)
        \/ StartResolves(c)
        \/ StartRejects(c)

SpecStart == Init /\ [][NextStart]_vars


\* startInterview alone, for every export shape: the state in which the grant
\* has been applied, the script has installed some window.vapiSDK and the
\* 1500 ms timeout of the first handler chain is about to fire.
InitBootstrap ==
    /\ step = "permissions"
    /\ jobRole \in Roles
    /\ resumeText \in Resumes
    /\ isCallActive = FALSE
    /\ callStatus = StGranted
    /\ transcript = <<>>
    /\ interviewDuration = 0
    /\ isMicEnabled = TRUE
    /\ isCameraEnabled = TRUE
    /\ permissionsGranted = TRUE
    /\ stream = 1
    /\ vapiRef = "none"
    /\ timerRef = NoTimer
    /\ streams = <<NewStream>>
    /\ intervals = {}
    /\ nTimers = 0
    /\ chains = [c \in ChainIds |->
                    IF c = 1 THEN [IdleChain EXCEPT !.pc = "settle", !.cRole = jobRole]
                    ELSE IdleChain]
    /\ vapiSDK \in ExportShapes
    /\ apiKey \in ApiKeys
    /\ hasMediaDevices = TRUE
    /\ sdkLog = NoLog
    /\ assistantConfig = <<>>
    /\ sanitizeCall = <<>>

NextBootstrap ==
    \E c \in ChainIds :
        \/ SettleFires(c)
        \/ StartResolves(c)
        \/ StartRejects(c)

SpecBootstrap == InitBootstrap /\ [][NextBootstrap]_vars


\* The two toggles on a granted stream.  Their buttons (lines 711 and 723)
\* are on the interview screen, which no handler reaches (see NeverInterview
\* below), so here the functions of the current render are run as they
\* stand, from every state of the setup and permissions screens.
NextToggle ==
    \/ \E r \in Roles : SetJobRole(r)
    \/ \E t \in Resumes : SetResumeText(t)
    \/ handleStartInterview
    \/ RequestAgain
    \/ Cancel
    \/ toggleMic
    \/ toggleCamera
    \/ \E c \in ChainIds :
        \/ RequestTimerFires(c)
        \/ GumResolve(c)
        \/ \E err \in GumErrors : GumReject(c, err)

SpecToggle == Init /\ [][NextToggle]_vars


\* Sessions run to their call-end one after the other, where stopping a
\* track may throw.
NextTeardown ==
    \/ \E r \in Roles : SetJobRole(r)
    \/ \E t \in Resumes : SetResumeText(t)
    \/ handleStartInterview
    \/ resetInterview
    \/ \E shape \in SdkShapes : SdkLoads(shape)
    \/ \E c \in ChainIds :
        \/ RequestTimerFires(c)
        \/ GumResolve(c)
        \/ SettleFires(c)
        \/ CallEnd(c)
        \/ \E k \in {"audio", "video"} : CallEndThrows(c, k)

SpecTeardown == Init /\ [][NextTeardown]_vars

\* sanitizeForApi and the agent configuration alone: the state in which
\* startInterview is about to build the configuration, for every text of the
\* two form fields (both non-empty, line 97), and sanitizeForApi applied to
\* every value.
InitSanitize ==
    /\ step = "permissions"
    /\ jobRole \in Texts \ {<<>>}
    /\ resumeText \in Texts \ {<<>>}
    /\ isCallActive = FALSE
    /\ callStatus = StGranted
    /\ transcript = <<>>
    /\ interviewDuration = 0
    /\ isMicEnabled = TRUE
    /\ isCameraEnabled = TRUE
    /\ permissionsGranted = TRUE
    /\ stream = 1
    /\ vapiRef = "none"
    /\ timerRef = NoTimer
    /\ streams = <<NewStream>>
    /\ intervals = {}
    /\ nTimers = 0
    /\ chains = [c \in ChainIds |->
                    IF c = 1 THEN [IdleChain EXCEPT !.pc = "settle", !.cStream = 1]
                    ELSE IdleChain]
    /\ vapiSDK = ShapeRun
    /\ apiKey = "pk_live"
    /\ hasMediaDevices = TRUE
    /\ sdkLog = NoLog
    /\ assistantConfig = <<>>
    /\ sanitizeCall = <<>>

\* Lines 299-321: startInterview builds the configuration from the role and
\* the resume of its render.
BuildAssistantConfig ==
    /\ assistantConfig = <<>>
    /\ assistantConfig' = <<AssistantConfig(jobRole, resumeText)>>
    /\ UNCHANGED <<step, jobRole, resumeText, isCallActive, callStatus,
                   transcript, interviewDuration, isMicEnabled, isCameraEnabled,
                   permissionsGranted, stream, vapiRef, timerRef, streams,
                   intervals, nTimers, chains, vapiSDK, env, sdkLog,
                   sanitizeCall>>

\* Lines 117-122: one call of sanitizeForApi on any value.
SanitizeCall(v) ==
    /\ sanitizeCall = <<>>
    /\ sanitizeCall' = <<[arg |-> v, result |-> sanitizeForApi(v)]>>
    /\ UNCHANGED <<step, jobRole, resumeText, isCallActive, callStatus,
                   transcript, interviewDuration, isMicEnabled, isCameraEnabled,
                   permissionsGranted, stream, vapiRef, timerRef, streams,
                   intervals, nTimers, chains, vapiSDK, env, sdkLog,
                   assistantConfig>>

NextSanitize ==
    \/ BuildAssistantConfig
    \/ \E v \in JsValues : SanitizeCall(v)

SpecSanitize == InitSanitize /\ [][NextSanitize]_vars



\* ======================================================== properties
\* The calls that were started on the agent side and have not ended.
ActiveCalls == {c \in ChainIds : chains[c].callStarted /\ ~chains[c].callEnded}

\* A step in which the call-end listener of chain c runs for the first time.
CallEndStep(c) == ~chains[c].callEnded /\ chains'[c].callEnded

\* A step in which startInterview of chain c completes its subscription.
BecomesActive(c) == chains[c].pc # "subscribed" /\ chains'[c].pc = "subscribed"

\* A step in which startInterview of chain c ends in its catch.
Caught(c) ==
    /\ chains[c].pc \in {"settle", "poll", "starting"}
    /\ chains'[c].pc = "idle"

\* No handler calls setStep('interview') (setStep is called at lines 108, 462,
\* 477 and 635 only), so the interview screen and its End Interview button are
\* never rendered: EndInterviewClick is never enabled and is not part of Next.
NeverInterview == step \in Steps \ {"interview"}

\* C1: whenever step is 'completed', every track of the session's stream has
\* been stopped and the held stream is null.
C1_CompletedReleased ==
    step = "completed" => (stream = NoStream /\ LiveStreams = {})

\* C2: a stream with live tracks exists only while step is 'permissions' or
\* 'interview'; in 'setup' and 'completed' no stream has a live track and
\* stream is null.
C2_GrantOnlyWhileActive ==
    step \in {"setup", "completed"} => (LiveStreams = {} /\ stream = NoStream)

\* C3: a getUserMedia request that completes after Cancel (step back to
\* 'setup') is discarded: the stream is not stored, the media flags are not
\* set and startInterview is not scheduled.
C3_LateGrantDiscarded ==
    [][\A c \in ChainIds :
          (step = "setup" /\ chains[c].pc = "getUserMedia"
              /\ chains'[c].pc # "getUserMedia")
          => /\ chains'[c].pc # "settle"
             /\ stream' = stream
             /\ UNCHANGED <<isMicEnabled, isCameraEnabled, permissionsGranted>>]_vars

\* C4: after a Cancel that followed the grant (step back to 'setup', the grant
\* released), a pending startInterview (settle delay or SDK poll) does nothing
\* further when its wait ends: no bootstrap or start, no timer, no active-call
\* flag, no greeting.
C4_CancelledStartDoesNothing ==
    [][\A c \in ChainIds :
          (step = "setup" /\ stream = NoStream
              /\ chains[c].pc \in {"settle", "poll"}
              /\ chains'[c] # chains[c])
          => /\ chains'[c].pc \notin {"starting", "subscribed"}
             /\ UNCHANGED <<isCallActive, transcript, nTimers, intervals, vapiRef>>]_vars

\* C5: when startInterview completes (grant, SDK wait, bootstrap, start and
\* subscribe all succeeded) step is 'interview', isCallActive is true, the
\* timer runs and the greeting is the first transcript entry.
C5_StartReachesLive ==
    [][\A c \in ChainIds :
          BecomesActive(c)
          => /\ step' = "interview"
             /\ isCallActive'
             /\ timerRef' \in intervals'
             /\ transcript' # <<>>
             /\ transcript'[1] = Greeting(chains'[c].cRole)]_vars

\* C6: an interval that increments interviewDuration is active if and only if
\* step is 'interview'.
C6_TimerIffLive ==
    (intervals # {}) <=> (step = "interview")

\* C7: when the SDK wait times out, the key is missing or the placeholder, the
\* export has no supported shape, or the start rejects, startInterview ends in
\* its catch; the catch sets the error status and leaves step, isCallActive,
\* the timers and the transcript as they were.
C7_FailureKeepsPermissions ==
    [][\A c \in ChainIds :
          /\ ( \/ /\ chains[c].pc = "poll" /\ chains'[c] # chains[c]
                  /\ ~vapiSDK.defined /\ ~vapiSDK'.defined
                  /\ chains[c].attempts + 1 >= MaxAttempts
               \/ /\ chains[c].pc \in {"settle", "poll"} /\ chains'[c] # chains[c]
                  /\ vapiSDK.defined
                  /\ (apiKey \in {"", PlaceholderKey}
                        \/ vapiSDK \in {PlainObject, ShapeRunThrows}) )
             => Caught(c)
          /\ Caught(c)
             => /\ callStatus' = StStartError
                /\ step' = step
                /\ step' # "interview"
                /\ UNCHANGED <<isCallActive, intervals, nTimers, timerRef,
                               transcript, stream, permissionsGranted>>]_vars

\* C7 witness: a failed start on the permissions screen: error status shown,
\* the grant still held, no call active, no timer, no greeting.
C7_Witness ==
    /\ callStatus = StStartError
    /\ step = "permissions"
    /\ stream # NoStream /\ permissionsGranted
    /\ ~isCallActive /\ intervals = {} /\ transcript = <<>>

\* C8: every change of step is setup -> permissions, permissions -> setup,
\* permissions -> interview, interview -> completed or completed -> setup.
ListedTransitions ==
    {<<"setup", "permissions">>, <<"permissions", "setup">>,
     <<"permissions", "interview">>, <<"interview", "completed">>,
     <<"completed", "setup">>}
C8_OnlyListedTransitions ==
    [][step' # step => <<step, step'>> \in ListedTransitions]_vars

\* C9: a session ended by the handle's call-end event is left as the End
\* Interview action leaves it: interval cleared, all tracks stopped, stream
\* null, the call and media flags false, step 'completed'.
C9_CallEndTearsDownLikeEndButton ==
    [][\A c \in ChainIds :
          CallEndStep(c)
          => /\ timerRef' \notin intervals'
             /\ LiveStreams' = {}
             /\ stream' = NoStream
             /\ ~isCallActive' /\ ~isMicEnabled' /\ ~isCameraEnabled'
             /\ ~permissionsGranted'
             /\ step' = "completed"]_vars

\* C10: at any time at most one stream has live tracks and at most one agent
\* call has been started and not ended.
C10_SingleGrantAndHandle ==
    /\ Cardinality(LiveStreams) <= 1
    /\ Cardinality(ActiveCalls) <= 1

\* --------------------------------------------------- the instantiation
\* The invocations the instantiation can make on the export.
IsBootCall(x) == x \in {"run", "construct", "call", "create", "dfltConstruct", "dfltCall"}

\* What invocation inv does on the export sdk, and the handle it yields.
Outcome(sdk, inv) ==
    CASE inv = "run" -> sdk.run
      [] inv = "construct" -> sdk.construct
      [] inv = "call" -> sdk.call
      [] inv = "create" -> sdk.create
      [] inv = "dfltConstruct" -> sdk.dfltConstruct
      [] inv = "dfltCall" -> sdk.dfltCall
Value(sdk, inv) ==
    IF inv = "run" THEN (IF sdk.run = "returnsHandle" THEN "handle" ELSE "sdk")
    ELSE Returned(Outcome(sdk, inv))

\* The position in cand of the first invocation that does not throw, or 0.
FirstOk(sdk, cand) ==
    LET ok == {i \in 1..Len(cand) : Outcome(sdk, cand[i]) # "throws"}
    IN  IF ok = {} THEN 0 ELSE CHOOSE i \in ok : \A j \in ok : i <= j

\* Every shape the export offers, in the order run, constructor, factory
\* call, create, default.
OfferedShapes(sdk) ==
    (IF sdk.run # "absent" THEN <<"run">> ELSE <<>>)
    \o <<"construct", "call">>
    \o (IF sdk.create # "absent" THEN <<"create">> ELSE <<>>)
    \o (IF sdk.dflt # "absent" THEN <<"dfltConstruct", "dfltCall">> ELSE <<>>)

\* The invocations open to one export: run alone when it is exposed, else
\* constructor and factory call, then create when exposed, else default.
Candidates(sdk) ==
    IF sdk.run # "absent" THEN <<"run">>
    ELSE <<"construct", "call">>
         \o (IF sdk.create # "absent" THEN <<"create">>
             ELSE IF sdk.dflt # "absent" THEN <<"dfltConstruct", "dfltCall">>
             ELSE <<>>)

\* A step in which startInterview of chain c, with a usable key, goes through
\* the instantiation.
BootStep(c) ==
    /\ chains[c].pc \in {"settle", "poll"}
    /\ chains'[c].pc \notin {"settle", "poll"}
    /\ vapiSDK.defined
    /\ ~BadKey(apiKey)

\* The instantiation of a BootStep tried cand in order up to the first
\* invocation that did not throw and took its result as the handle; it failed
\* when every one threw, with the unsupported-shape error iff unsupported.
TriedInOrder(c, cand, unsupported) ==
    LET made == SelectSeq(sdkLog'.calls, IsBootCall)
        k == FirstOk(vapiSDK, cand)
    IN  IF k > 0
        THEN /\ made = SubSeq(cand, 1, k)
             /\ sdkLog'.error \in {"none", ErrNoOn}
             /\ vapiRef' = Value(vapiSDK, cand[k])
        ELSE /\ made = cand
             /\ chains'[c].pc = "idle"
             /\ vapiRef' = vapiRef
             /\ sdkLog'.error = ErrUnsupported <=> unsupported

\* C11 (as stated): for every export shape the instantiation tries run,
\* constructor, factory call, create and default in that order, the handle is
\* the result of the first that succeeds, and it fails with the
\* unsupported-shape error exactly when none succeeds.
C11_FirstSuccessWins ==
    [][\A c \in ChainIds : BootStep(c) =>
          TriedInOrder(c, OfferedShapes(vapiSDK), TRUE)]_vars

\* C11 (amended): when run is exposed only run is invoked and its throw fails
\* the start; otherwise constructor and factory call are tried, then create
\* when it is exposed and else the default-wrapped constructor and call; each
\* is invoked only after every earlier one threw, the handle is the result of
\* the first that does not throw, and the unsupported-shape error is the
\* failure exactly when run, create and default are all absent.
C11_BootstrapOrder ==
    [][\A c \in ChainIds : BootStep(c) =>
          TriedInOrder(c, Candidates(vapiSDK),
                       vapiSDK.run = "absent" /\ vapiSDK.create = "absent"
                           /\ vapiSDK.dflt = "absent")]_vars

\* The default-wrapped call was reached after three throws and gave the handle.
C11_Witness ==
    /\ sdkLog.calls = <<"construct", "call", "dfltConstruct", "dfltCall">>
    /\ sdkLog.error = "none"
    /\ vapiRef = "handle"
    /\ \E c \in ChainIds : chains[c].pc = "subscribed"

\* x is among the invocations of log.
Invoked(log, x) == \E i \in 1..Len(log.calls) : log.calls[i] = x

\* C12: when run exists and succeeds, run is the only invocation of the
\* start: neither start(config) nor a direct call of the handle follows; the
\* handle kept and subscribed on is what run returned, or the export itself
\* when run returned nothing.
C12_RunStartsOnce ==
    [][\A c \in ChainIds :
          BootStep(c) /\ vapiSDK.run \in {"returnsHandle", "returnsNothing"} =>
              /\ sdkLog'.calls = <<"run">>
              /\ vapiRef' = (IF vapiSDK.run = "returnsHandle" THEN "handle" ELSE "sdk")
              /\ chains'[c].pc \in {"subscribed", "idle"}
              /\ chains'[c].pc = "subscribed" =>
                    chains'[c].vapi = vapiRef' /\ chains'[c].runStarted]_vars

\* run returned a handle that has start(config), and start was not invoked.
C12_Witness ==
    /\ vapiSDK.run = "returnsHandle"
    /\ vapiSDK.handle.start
    /\ sdkLog.calls = <<"run">>
    /\ \E c \in ChainIds : chains[c].pc = "subscribed" /\ chains[c].vapi = "handle"

\* A step of startInterview of chain c before its instantiation.
WaitStep(c) ==
    /\ chains[c].pc \in {"settle", "poll"}
    /\ chains'[c] # chains[c]
    /\ vapiSDK' = vapiSDK

\* C13 (as stated): with an empty or placeholder key startInterview fails
\* with the configuration error, before any SDK shape is invoked.
C13_ConfigErrorFirst ==
    [][\A c \in ChainIds :
          Caught(c) /\ apiKey \in {"", PlaceholderKey} =>
              sdkLog'.error = ErrConfig /\ sdkLog'.calls = <<>>]_vars

\* C13 (amended): with an empty or placeholder key startInterview invokes
\* nothing on the SDK, keeps no handle and starts no session; it fails with
\* the configuration error once the SDK is there, and with the load-timeout
\* error when the SDK never loads.
C13_BadKeyNeverReachesSdk ==
    [][\A c \in ChainIds :
          WaitStep(c) /\ apiKey \in {"", PlaceholderKey} =>
              /\ sdkLog'.calls = <<>>
              /\ vapiRef' = vapiRef
              /\ isCallActive' = isCallActive
              /\ chains'[c].pc \in {"poll", "idle"}
              /\ chains'[c].pc = "idle" =>
                    /\ callStatus' = StStartError
                    /\ sdkLog'.error = (IF vapiSDK.defined THEN ErrConfig
                                        ELSE ErrTimeout)]_vars

\* The placeholder key met a loaded SDK and the start failed on the key.
C13_Witness ==
    /\ apiKey = PlaceholderKey
    /\ vapiSDK.defined
    /\ sdkLog = Log(<<>>, ErrConfig)
    /\ callStatus = StStartError
    /\ vapiRef = "none"

\* The step of chain c leaves the session active: listeners subscribed, a
\* new interval in timerRef, isCallActive set and the greeting appended.
BecameActive(c) ==
    /\ chains'[c].pc = "subscribed"
    /\ isCallActive'
    /\ callStatus' = StInProgress
    /\ timerRef' \in intervals' \ intervals
    /\ transcript' = Append(transcript, Greeting(chains[c].cRole))

\* C14 (as stated): whatever start(config) or the direct call of a callable
\* handle does, the listeners are subscribed and the session becomes active.
C14_StartFailureOnlyLogged ==
    [][\A c \in ChainIds :
          /\ vapiSDK.handle.on
          /\ \/ BootStep(c) /\ Invoked(sdkLog', "handleCall")
             \/ chains[c].pc = "starting" /\ chains'[c].pc # "starting"
          => BecameActive(c)]_vars

\* C14 (amended): a throw of the direct call of a callable handle is only
\* logged and the session becomes active; a rejection or throw of
\* start(config) fails startInterview: error status, the session stays
\* inactive, no timer, no greeting.
C14_OnlyDirectCallSwallowed ==
    [][\A c \in ChainIds :
          /\ vapiSDK.handle.on /\ BootStep(c) /\ Invoked(sdkLog', "handleCall")
                => BecameActive(c)
          /\ vapiSDK.handle.on /\ chains[c].pc = "starting"
                /\ chains'[c].pc # "starting" /\ sdkLog'.error # ErrStart
                => BecameActive(c)
          /\ chains[c].pc = "starting" /\ sdkLog'.error = ErrStart
                => /\ chains'[c].pc = "idle"
                   /\ callStatus' = StStartError
                   /\ UNCHANGED <<isCallActive, intervals, timerRef, transcript>>]_vars

\* A callable handle threw when called and the session is active all the same.
C14_Witness ==
    /\ vapiSDK.handle.callable = "throws"
    /\ Invoked(sdkLog, "handleCall")
    /\ isCallActive
    /\ timerRef \in intervals
    /\ \E c \in ChainIds : chains[c].pc = "subscribed"

\* C15: the SDK wait ends after at most MaxAttempts waits: a wait that ends
\* with the SDK present goes on to the key check and the instantiation, every
\* other wait counts one attempt, and the wait that makes the count
\* MaxAttempts fails with the load-timeout error; no wait invokes the SDK
\* while it is absent.
C15_SdkWaitBounded ==
    /\ [](\A c \in ChainIds : chains[c].attempts < MaxAttempts)
    /\ [][\A c \in ChainIds :
            chains[c].pc = "poll" /\ WaitStep(c) =>
                IF vapiSDK.defined
                THEN chains'[c].pc # "poll"
                ELSE /\ sdkLog'.calls = <<>>
                     /\ IF chains[c].attempts + 1 < MaxAttempts
                        THEN /\ chains'[c].pc = "poll"
                             /\ chains'[c].attempts = chains[c].attempts + 1
                        ELSE /\ chains'[c].pc = "idle"
                             /\ callStatus' = StStartError
                             /\ sdkLog'.error = ErrTimeout]_vars

\* The wait ran out: the SDK is still undefined and the timeout was logged.
C15_Witness ==
    /\ ~vapiSDK.defined
    /\ sdkLog = Log(<<>>, ErrTimeout)
    /\ callStatus = StStartError

\* The transcript entry of a transcript message.
Entry(m) ==
    [speaker |-> IF m.role = "assistant" THEN "Interviewer" ELSE "You",
     text |-> m.transcript]

\* C16 (as stated): every message of type 'transcript' appends exactly one
\* entry (Interviewer for assistant, You for user, the transcript field as
\* text); a message of any other type leaves the transcript unchanged.
C16_EachTranscriptMessageAppends ==
    \A c \in ChainIds, m \in Messages :
        Listening(c) /\ Len(transcript) < MaxTranscript =>
            IF m.type = "transcript"
            THEN /\ ENABLED (OnMessage(c, m) /\ Len(transcript') = Len(transcript) + 1)
                 /\ m.role \in {"assistant", "user"} =>
                       ~ENABLED (OnMessage(c, m) /\ transcript' # Append(transcript, Entry(m)))
            ELSE ~ENABLED (OnMessage(c, m) /\ transcript' # transcript)

\* C16 (amended): a message of type 'transcript' whose role is assistant or
\* user appends exactly one entry (Interviewer / You, the transcript field as
\* text); a transcript message of any other role, like a message of any
\* other type, leaves the transcript unchanged.
C16_TranscriptMessageAppends ==
    \A c \in ChainIds, m \in Messages :
        Listening(c) /\ Len(transcript) < MaxTranscript =>
            /\ ENABLED OnMessage(c, m)
            /\ IF m.type = "transcript" /\ m.role \in {"assistant", "user"}
               THEN ~ENABLED (OnMessage(c, m) /\ transcript' # Append(transcript, Entry(m)))
               ELSE ~ENABLED (OnMessage(c, m) /\ transcript' # transcript)

\* A user utterance was appended after the greeting.
C16_Witness ==
    /\ Len(transcript) >= 2
    /\ transcript[Len(transcript)] = [speaker |-> "You", text |-> <<"Hello!">>]

\* C17: a step that sets the agent-error status changes callStatus alone:
\* step, isCallActive, the timer, the stream and its tracks, the transcript
\* and everything else stay as they were.
C17_ErrorChangesStatusOnly ==
    [][callStatus' = StAgentError /\ callStatus # StAgentError =>
          UNCHANGED <<step, jobRole, resumeText, isCallActive, transcript,
                      interviewDuration, isMicEnabled, isCameraEnabled,
                      permissionsGranted, stream, vapiRef, timerRef, streams,
                      intervals, nTimers, chains, vapiSDK, apiKey,
                      hasMediaDevices, sdkLog, api>>]_vars

\* An agent error was reported and the session is still live.
C17_Witness ==
    /\ callStatus = StAgentError
    /\ isCallActive
    /\ timerRef \in intervals
    /\ stream # NoStream /\ HasLiveTrack(stream)
    /\ step = "permissions"

\* C18: the transcript changes only by one entry appended at its end, or by
\* resetInterview emptying it; a step into 'completed' (endInterview) leaves
\* it unchanged.
C18_TranscriptAppendOnly ==
    [][/\ \/ transcript' = transcript
          \/ /\ Len(transcript') = Len(transcript) + 1
             /\ SubSeq(transcript', 1, Len(transcript)) = transcript
          \/ step = "completed" /\ step' = "setup" /\ transcript' = <<>>
       /\ (step # "completed" /\ step' = "completed")
             \/ (\E c \in ChainIds : CallEndStep(c))
             => transcript' = transcript]_vars

\* The session ended with the greeting and a later utterance, in that order.
C18_Witness ==
    /\ step = "completed"
    /\ Len(transcript) >= 2
    /\ transcript[1].speaker = "Interviewer"
    /\ transcript[2].speaker = "You"

\* C19: right after every transition into 'setup' interviewDuration is 0,
\* and while the call is active interviewDuration never decreases.
C19_SetupStartsAtZero ==
    [][/\ step' = "setup" /\ step # "setup" => interviewDuration' = 0
       /\ isCallActive /\ isCallActive' => interviewDuration' >= interviewDuration]_vars

\* The state endInterview leaves when run with the captured stream cs.
EndedBy(cs) ==
    /\ step = "completed"
    /\ callStatus = StCompleted
    /\ ~isCallActive /\ ~isMicEnabled /\ ~isCameraEnabled /\ ~permissionsGranted
    /\ timerRef \notin intervals
    /\ cs # NoStream => stream = NoStream /\ ~HasLiveTrack(cs)

\* C20: the call-end listener always runs to its end, with or without a
\* held stream; it leaves the state EndedBy describes, and run again in such
\* a state it changes no state variable and no track.
C20_EndInterviewIdempotent ==
    /\ [][\A c \in ChainIds : CallEndStep(c) => EndedBy(chains[c].cStream)']_vars
    /\ [](\A c \in ChainIds : Listening(c) =>
            /\ ENABLED CallEnd(c)
            /\ EndedBy(chains[c].cStream) =>
                  ~ENABLED (CallEnd(c) /\
                      <<step, jobRole, resumeText, isCallActive, callStatus,
                        transcript, interviewDuration, isMicEnabled,
                        isCameraEnabled, permissionsGranted, stream, vapiRef,
                        timerRef, streams, intervals, nTimers, vapiSDK, apiKey,
                        hasMediaDevices, sdkLog, api>>'
                      # <<step, jobRole, resumeText, isCallActive, callStatus,
                          transcript, interviewDuration, isMicEnabled,
                          isCameraEnabled, permissionsGranted, stream, vapiRef,
                          timerRef, streams, intervals, nTimers, vapiSDK, apiKey,
                          hasMediaDevices, sdkLog, api>>))

\* call-end was delivered for a chain that captured a stream, which is stopped.
C20_Witness ==
    \E c \in ChainIds :
        /\ chains[c].callEnded
        /\ chains[c].cStream # NoStream
        /\ EndedBy(chains[c].cStream)

\* Chain c alone changes in the step.
OnlyChain(c) == \A d \in ChainIds : d # c => chains'[d] = chains[d]

\* C21: a rejection of getUserMedia, of whatever error class, changes the
\* status line only: step, stream and permissionsGranted stay as they were
\* and the handler chain ends without scheduling startInterview; a new
\* request is issued only by the 500 ms timeout of handleStartInterview or by
\* Request Again (shown while step is 'permissions' and nothing is granted),
\* one request at a time.
C21_RejectionKeepsWaiting ==
    [][\A c \in ChainIds :
          /\ chains[c].pc = "getUserMedia" /\ chains'[c].pc = "idle" =>
                /\ callStatus' = StDenied
                /\ OnlyChain(c)
                /\ UNCHANGED <<step, stream, permissionsGranted, streams,
                               isMicEnabled, isCameraEnabled, isCallActive,
                               intervals, timerRef, vapiRef, transcript>>
          /\ chains[c].pc # "getUserMedia" /\ chains'[c].pc = "getUserMedia" =>
                /\ OnlyChain(c)
                /\ \/ chains[c].pc = "timeout500"
                   \/ chains[c].pc = "idle" /\ step = "permissions"
                         /\ ~permissionsGranted]_vars

\* The request was rejected: the permissions screen waits with nothing
\* granted, nothing pending and nothing scheduled.
C21_Witness ==
    /\ callStatus = StDenied
    /\ step = "permissions"
    /\ stream = NoStream
    /\ ~permissionsGranted
    /\ \A c \in ChainIds : chains[c].pc = "idle"

\* The step starts exactly one handler chain, at its 500 ms timeout.
OneNewRequest ==
    \E c \in ChainIds :
        /\ chains[c].pc = "idle"
        /\ chains'[c].pc = "timeout500"
        /\ OnlyChain(c)

\* C22: on the setup screen handleStartInterview goes to 'permissions' and
\* schedules exactly one requestMediaPermissions when jobRole and resumeText
\* are non-empty and the capture API is there, and otherwise changes nothing.
C22_StartValidated ==
    step = "setup" /\ FreeIds # {} =>
        IF jobRole # "" /\ resumeText # "" /\ hasMediaDevices
        THEN /\ ENABLED handleStartInterview
             /\ ~ENABLED (handleStartInterview
                          /\ ~(step' = "permissions" /\ OneNewRequest))
        ELSE ~ENABLED (handleStartInterview /\ vars' # vars)

\* The start was accepted: the permissions screen with one request scheduled.
C22_Witness ==
    /\ step = "permissions"
    /\ jobRole # "" /\ resumeText # "" /\ hasMediaDevices
    /\ callStatus = ""
    /\ \E c \in ChainIds :
          /\ chains[c].pc = "timeout500"
          /\ \A d \in ChainIds : d # c => chains[d].pc = "idle"

\* C23: while a stream is held isMicEnabled is the enabled flag of its audio
\* track and isCameraEnabled that of its video track, after every toggle; a
\* step that flips the enabled flag of a track of one kind is on the held
\* stream, sets the flag of that kind and leaves the other track, the other
\* flag and the liveness of both tracks alone; with no stream held a toggle
\* changes nothing.
C23_TogglesMirrorTracks ==
    /\ [](stream # NoStream =>
            /\ isMicEnabled = streams[stream].audio.enabled
            /\ isCameraEnabled = streams[stream].video.enabled)
    /\ [](stream = NoStream =>
            /\ ~ENABLED (toggleMic /\ vars' # vars)
            /\ ~ENABLED (toggleCamera /\ vars' # vars))
    /\ [][\A s \in 1..Len(streams) :
            /\ streams'[s].audio.enabled # streams[s].audio.enabled =>
                  /\ s = stream /\ stream' = stream
                  /\ isMicEnabled' = streams'[s].audio.enabled
                  /\ streams'[s].video = streams[s].video
                  /\ isCameraEnabled' = isCameraEnabled
                  /\ streams'[s].audio.live = streams[s].audio.live
            /\ streams'[s].video.enabled # streams[s].video.enabled =>
                  /\ s = stream /\ stream' = stream
                  /\ isCameraEnabled' = streams'[s].video.enabled
                  /\ streams'[s].audio = streams[s].audio
                  /\ isMicEnabled' = isMicEnabled
                  /\ streams'[s].video.live = streams[s].video.live]_vars

\* The microphone was muted and the camera left on; both tracks are live.
C23_Witness ==
    /\ stream # NoStream
    /\ ~isMicEnabled /\ ~streams[stream].audio.enabled
    /\ isCameraEnabled /\ streams[stream].video.enabled
    /\ streams[stream].audio.live /\ streams[stream].video.live

\* C24: resetInterview (the step from 'completed' to 'setup') leaves jobRole
\* and resumeText empty, the transcript empty, interviewDuration 0 and
\* isCallActive false.
C24_ResetClearsSession ==
    [][step = "completed" /\ step' = "setup" =>
          /\ jobRole' = "" /\ resumeText' = ""
          /\ transcript' = <<>>
          /\ interviewDuration' = 0
          /\ ~isCallActive']_vars

\* A session that had run was reset: the empty form, a handle still in vapiRef.
C24_Witness ==
    /\ step = "setup"
    /\ jobRole = "" /\ resumeText = ""
    /\ transcript = <<>> /\ interviewDuration = 0 /\ ~isCallActive
    /\ vapiRef # "none"
    /\ \E c \in ChainIds : chains[c].callEnded

\* C25: whatever is thrown while endInterview tears down, the teardown
\* completes: a first call-end leaves the interval of timerRef cleared, the
\* tracks of the listener's stream stopped, the call and media flags cleared
\* and step 'completed'.
C25_TeardownSwallowsErrors ==
    [][\A c \in ChainIds :
          CallEndStep(c) /\ chains[c].cStream # NoStream =>
              /\ timerRef \notin intervals'
              /\ ~streams'[chains[c].cStream].audio.live
              /\ ~streams'[chains[c].cStream].video.live
              /\ ~isCallActive' /\ ~isMicEnabled' /\ ~isCameraEnabled'
              /\ step' = "completed"]_vars


\* C26 -----------------------------------------------------------------
\* out is s with every backslash doubled: character i of s stands in out at
\* i plus the number of backslashes before it, a backslash is followed by one
\* more, and out has no other character.
BackslashesBefore(s, i) == Cardinality({j \in 1..(i - 1) : s[j] = Backslash})

Doubled(s, out) ==
    /\ Len(out) = Len(s) + BackslashesBefore(s, Len(s) + 1)
    /\ \A i \in 1..Len(s) :
          /\ out[i + BackslashesBefore(s, i)] = s[i]
          /\ s[i] = Backslash => out[i + BackslashesBefore(s, i) + 1] = Backslash

\* Every maximal run of backslashes of s has even length.
EvenRuns(s) ==
    \A i, j \in 1..Len(s) :
        ( /\ i <= j
          /\ \A k \in i..j : s[k] = Backslash
          /\ (i = 1 \/ s[i - 1] # Backslash)
          /\ (j = Len(s) \/ s[j + 1] # Backslash) )
        => (j - i + 1) % 2 = 0

\* Each doubled backslash collapsed to one.
RECURSIVE Collapse(_)
Collapse(s) ==
    IF s = <<>> THEN <<>>
    ELSE IF Len(s) >= 2 /\ s[1] = Backslash /\ s[2] = Backslash
    THEN <<Backslash>> \o Collapse(SubSeq(s, 3, Len(s)))
    ELSE <<s[1]>> \o Collapse(Tail(s))

IsSanitized(s, out) ==
    /\ out.type = "string"
    /\ Doubled(s, out.chars)
    /\ EvenRuns(out.chars)
    /\ Collapse(out.chars) = s

\* C26: sanitizeForApi returns its string argument with every backslash
\* doubled and every other character unchanged and in order (the maximal
\* runs of backslashes of the result are even, and collapsing each doubled
\* backslash recovers the argument); an argument that is not a string is
\* returned unchanged; the system prompt and the first message of the agent
\* configuration are the sanitized prompt template and greeting.
C26_SanitizeDoublesBackslashes ==
    /\ \A k \in 1..Len(sanitizeCall) :
          LET a == sanitizeCall[k].arg
              r == sanitizeCall[k].result
          IN IF a.type = "string" THEN IsSanitized(a.chars, r) ELSE r = a
    /\ \A k \in 1..Len(assistantConfig) :
          /\ IsSanitized(generateInterviewPrompt(jobRole, resumeText),
                         assistantConfig[k].content)
          /\ IsSanitized(FirstMessageText(jobRole), assistantConfig[k].firstMessage)

\* sanitizeForApi has been called on two backslashes in a row and returned
\* four, and the configuration was built from a role holding a backslash and
\* a resume holding "\n" as two characters.
C26_Witness ==
    /\ sanitizeCall # <<>>
    /\ sanitizeCall[1].arg = Str(<<Backslash, Backslash>>)
    /\ sanitizeCall[1].result = Str(<<Backslash, Backslash, Backslash, Backslash>>)
    /\ assistantConfig # <<>>
    /\ jobRole = <<"a", Backslash>>
    /\ resumeText = <<Backslash, "n">>
    /\ Len(assistantConfig[1].content.chars) = 17


\* C27 -----------------------------------------------------------------
\* C27: at most one interval that increments interviewDuration is active at
\* any time, also when call-start fires after the fallback timer was started,
\* and the interval that a call-end clears was the only active one.
C27_AtMostOneInterval ==
    /\ [](Cardinality(intervals) <= 1)
    /\ [][\A c \in ChainIds : CallEndStep(c) => intervals' = {}]_vars


\* C28 -----------------------------------------------------------------
\* The session of chain c is over: its call-end was delivered, so its
\* endInterview has run.
SessionOver(c) ==
    /\ chains[c].pc = "subscribed"
    /\ chains[c].callStarted
    /\ chains[c].callEnded

\* C28: once endInterview has run (summary screen) or the session has
\* returned to Setup, no call-start or message event of the ended session's
\* handle appends to the transcript, sets isCallActive to true or starts a
\* timer: while every handler chain is idle or belongs to an ended session
\* and the screen stays where it is, these three do not change that way.
C28_LateEventsIgnored ==
    [][( /\ step \in {"setup", "completed"}
         /\ step' = step
         /\ chains' = chains
         /\ \E c \in ChainIds : SessionOver(c)
         /\ \A c \in ChainIds : chains[c].pc = "idle" \/ SessionOver(c) )
       => /\ Len(transcript') <= Len(transcript)
          /\ isCallActive' => isCallActive
          /\ intervals' \subseteq intervals]_vars


\* C29 -----------------------------------------------------------------
\* C29: isMicEnabled, isCameraEnabled and permissionsGranted are true only
\* while a stream is held, and after Cancel and after endInterview all three
\* are false.
C29_FlagsOnlyWithStream ==
    /\ [](isMicEnabled \/ isCameraEnabled \/ permissionsGranted => stream # NoStream)
    /\ [][(step = "permissions" /\ step' \in {"setup", "completed"})
            => ~isMicEnabled' /\ ~isCameraEnabled' /\ ~permissionsGranted']_vars

=========================================================================
